---- MODULE Spec2Model ----
(***************************************************************************)
(* SQLTestCase.assertDataFrameEqual (python/sparktestingbase/sqltestcase.py)*)
(* as a state machine: one call of the routine on two DataFrames, stepped   *)
(* statement by statement, with the engine calls (cache, take, unpersist)   *)
(* allowed to raise.                                                        *)
(*                                                                          *)
(* Field values are Python objects.  A double is a fixed-point number       *)
(* (an integer count of tolerance units), the float NaN, or None (SQL       *)
(* NULL); an array<double> is a list of doubles; a string is a code.        *)
(***************************************************************************)
EXTENDS Integers, Sequences, FiniteSets

\* ------------------------------------------------------------------ bounds
MaxRows == 2
MaxWideRows == 1
MaxFloat == 1
MaxTol == 1
MaxLong == 11

\* unequalRDD.take(10)
TakeLimit == 10

\* ------------------------------------------------------------ Python values
Float(n) == [k |-> "float", v |-> n, items |-> <<>>]
NaN == [k |-> "nan", v |-> 0, items |-> <<>>]
None == [k |-> "none", v |-> 0, items |-> <<>>]
Str(n) == [k |-> "str", v |-> n, items |-> <<>>]
List(s) == [k |-> "list", v |-> 0, items |-> s]

\* isinstance(a, float): NaN is a float, None is not
IsFloat(a) == a.k \in {"float", "nan"}

Abs(n) == IF n < 0 THEN 0 - n ELSE n

\* a == b on scalars: NaN compares unequal to everything, itself included
\* (the two rows of a joined pair are deserialized separately, so the
\* identity shortcut of container comparison never applies)
ScalarEq(a, b) ==
    /\ a.k = b.k
    /\ a.k # "nan"
    /\ a.v = b.v

\* a == b on field values; lists compare element by element
PyEq(a, b) ==
    IF a.k = "list" /\ b.k = "list"
    THEN /\ Len(a.items) = Len(b.items)
         /\ \A i \in 1..Len(a.items) : ScalarEq(a.items[i], b.items[i])
    ELSE ScalarEq(a, b)

\* x == y on rows (Row is a tuple)
RowEq(x, y) ==
    /\ Len(x) = Len(y)
    /\ \A i \in 1..Len(x) : PyEq(x[i], y[i])

\* abs(a - b) > tol for a float a: a TypeError unless b is a float too;
\* any comparison with NaN is False
AbsDiffGt(a, b, t) ==
    IF a.k = "nan" \/ b.k = "nan" THEN FALSE ELSE Abs(a.v - b.v) > t

RECURSIVE EqualLoopFloatsOnly(_, _, _, _)
\* the loop without its else branch: only float fields are compared
EqualLoopFloatsOnly(x, y, t, idx) ==
    IF idx > Len(x) THEN "True"
    ELSE LET a == x[idx]
             b == y[idx]
         IN IF IsFloat(a)
            THEN IF ~IsFloat(b) THEN "TypeError"
                 ELSE IF AbsDiffGt(a, b, t) THEN "False"
                 ELSE EqualLoopFloatsOnly(x, y, t, idx + 1)
            ELSE EqualLoopFloatsOnly(x, y, t, idx + 1)

RECURSIVE EqualLoop(_, _, _, _)
\* the for loop of equal, from index idx on
EqualLoop(x, y, t, idx) ==
    IF idx > Len(x) THEN "True"
    ELSE LET a == x[idx]
             b == y[idx]
         IN IF IsFloat(a)
            THEN IF ~IsFloat(b) THEN "TypeError"
                 ELSE IF AbsDiffGt(a, b, t) THEN "False"
                 ELSE EqualLoop(x, y, t, idx + 1)
            ELSE IF ~PyEq(a, b) THEN "False"
                 ELSE EqualLoop(x, y, t, idx + 1)

\* equal(x, y): "True", "False", or the exception it raises
Equal(x, y, t) ==
    IF Len(x) # Len(y) THEN "False"
    ELSE IF RowEq(x, y) THEN "True"
    ELSE EqualLoop(x, y, t, 1)

\* ---------------------------------------------------------------- datasets
SchemaA == <<[name |-> "d", type |-> "double"]>>
SchemaS == <<[name |-> "d", type |-> "string"]>>
SchemaC == <<[name |-> "d", type |-> "double"], [name |-> "l", type |-> "array"]>>
Schemas == {SchemaA, SchemaS, SchemaC}

ValuesOf(type) ==
    CASE type = "double" -> {Float(n) : n \in 0..MaxFloat} \cup {NaN, None}
      [] type = "string" -> {Str(0), None}
      [] type = "array" -> {List(<<Float(0)>>), List(<<NaN>>)}

RowsOf(schema) ==
    {x \in [1..Len(schema) -> UNION {ValuesOf(schema[i].type) : i \in 1..Len(schema)}] :
        \A i \in 1..Len(schema) : x[i] \in ValuesOf(schema[i].type)}

Repeat(x, n) == [i \in 1..n |-> x]

\* the longest short DataFrame of a schema: wide rows get fewer of them
MaxRowsOf(schema) == IF Len(schema) = 1 THEN MaxRows ELSE MaxWideRows

\* the DataFrames a test hands in: every short one, and long uniform ones
DataFrames ==
    UNION {
        {[schema |-> s, rows |-> rs] :
            rs \in UNION {[1..n -> RowsOf(s)] : n \in 0..MaxRowsOf(s)}}
        \cup
        {[schema |-> s, rows |-> Repeat(x, n)] :
            x \in RowsOf(s), n \in TakeLimit..MaxLong}
        : s \in Schemas}

Tols == (0 - 1)..MaxTol

\* ------------------------------------------------------------------- state
VARIABLES
    expected,       \* the DataFrame passed as expected
    result,         \* the DataFrame passed as result
    same,           \* both arguments are the same DataFrame object
    tol,            \* the tolerance
    pc,             \* the statement the call is at
    cached,         \* per RDD: is it persisted
    bound,          \* the local names assigned so far
    differentRows,  \* what take(10) returned
    raised,         \* the exception in flight when the finally block runs
    outcome,        \* how the call ended
    log,            \* the RDD operations called so far
    fault           \* an engine call raised

vars == <<expected, result, same, tol, pc, cached, bound, differentRows,
          raised, outcome, log, fault>>

\* expected.rdd and result.rdd: one RDD when the arguments are one DataFrame
ExpectedRdd == 1
ResultRdd == IF same THEN 1 ELSE 2

Init ==
    /\ expected \in DataFrames
    /\ result \in DataFrames
    /\ same \in BOOLEAN
    /\ same => result = expected
    /\ tol \in Tols
    /\ pc = "schema"
    /\ cached = [r \in {1, 2} |-> FALSE]
    /\ bound = {}
    /\ differentRows = {}
    /\ raised = "none"
    /\ outcome = "running"
    /\ log = <<>>
    /\ fault = FALSE

\* ---------------------------------------------------- the RDD pipeline
\* zipWithIndex(rdd): (idx, data), idx from 0
ZipWithIndex(rows) == {<<i - 1, rows[i]>> : i \in 1..Len(rows)}

\* a full outer join: a key only one side has is paired with an empty row
OuterJoin(a, b) ==
    {<<p[1], <<p[2], q[2]>>>> : <<p, q>> \in {pq \in a \X b : pq[1][1] = pq[2][1]}}
    \cup {<<p[1], <<p[2], <<>>>>>> : p \in {p \in a : \A q \in b : q[1] # p[1]}}
    \cup {<<q[1], <<<<>>, q[2]>>>> : q \in {q \in b : \A p \in a : p[1] # q[1]}}

\* a.join(b): (key, (va, vb)) for the keys both sides have
Join(a, b) ==
    {<<p[1], <<p[2], q[2]>>>> : <<p, q>> \in {pq \in a \X b : pq[1][1] = pq[2][1]}}

JoinedRDD == Join(ZipWithIndex(expected.rows), ZipWithIndex(result.rows))

\* equal on a joined pair
EqualOf(j) == Equal(j[2][1], j[2][2], tol)

\* filter(lambda x: not equal(...)): the pairs kept
UnequalRDD == {j \in JoinedRDD : EqualOf(j) = "False"}

\* the pairs on which the predicate raises
RaisingRDD == {j \in JoinedRDD : EqualOf(j) = "TypeError"}

\* collect() in place of take(n): every element
TakeAll(rdd, n) == {rdd}

\* rdd.take(n): n elements, or all when there are fewer, in engine order
Take(rdd, n) ==
    IF Cardinality(rdd) <= n THEN {rdd}
    ELSE {s \in SUBSET rdd : Cardinality(s) = n}

\* ------------------------------------------------------------------ actions
\* the schema assertion left out
SchemaCheckSkipped ==
    /\ pc = "schema"
    /\ pc' = "cacheExpected"
    /\ UNCHANGED <<expected, result, same, tol, cached, bound, differentRows,
                   raised, outcome, log, fault>>

\* the schema assertion placed after the two cache() calls
SchemaCheckAfterCache ==
    /\ pc = "schema"
    /\ cached' = [r \in {1, 2} |-> r \in {ExpectedRdd, ResultRdd}]
    /\ bound' = {"expectedRDD", "resultRDD"}
    /\ log' = <<<<"cache", ExpectedRdd>>, <<"cache", ResultRdd>>>>
    /\ IF expected.schema = result.schema
       THEN /\ pc' = "take"
            /\ UNCHANGED outcome
       ELSE /\ pc' = "done"
            /\ outcome' = "SchemaMismatch"
    /\ UNCHANGED <<expected, result, same, tol, differentRows, raised, fault>>

\* self.assertEqual(expected.schema, result.schema)
SchemaCheck ==
    /\ pc = "schema"
    /\ IF expected.schema = result.schema
       THEN /\ pc' = "cacheExpected"
            /\ UNCHANGED outcome
       ELSE /\ pc' = "done"
            /\ outcome' = "SchemaMismatch"
    /\ UNCHANGED <<expected, result, same, tol, cached, bound, differentRows,
                   raised, log, fault>>

\* expectedRDD = expected.rdd.cache().  A call that raises binds nothing and
\* leaves the storage level as it was; the finally block runs next.
CacheExpected ==
    /\ pc = "cacheExpected"
    /\ log' = Append(log, <<"cache", ExpectedRdd>>)
    /\ \E ok \in BOOLEAN :
        IF ok
        THEN /\ cached' = [cached EXCEPT ![ExpectedRdd] = TRUE]
             /\ bound' = bound \cup {"expectedRDD"}
             /\ pc' = "cacheResult"
             /\ UNCHANGED <<raised, fault>>
        ELSE /\ raised' = "EngineError"
             /\ fault' = TRUE
             /\ pc' = "unpersistExpected"
             /\ UNCHANGED <<cached, bound>>
    /\ UNCHANGED <<expected, result, same, tol, differentRows, outcome>>

\* resultRDD = result.rdd.cache()
CacheResult ==
    /\ pc = "cacheResult"
    /\ log' = Append(log, <<"cache", ResultRdd>>)
    /\ \E ok \in BOOLEAN :
        IF ok
        THEN /\ cached' = [cached EXCEPT ![ResultRdd] = TRUE]
             /\ bound' = bound \cup {"resultRDD"}
             /\ pc' = "take"
             /\ UNCHANGED <<raised, fault>>
        ELSE /\ raised' = "EngineError"
             /\ fault' = TRUE
             /\ pc' = "unpersistExpected"
             /\ UNCHANGED <<cached, bound>>
    /\ UNCHANGED <<expected, result, same, tol, differentRows, outcome>>

\* zipWithIndex, join, filter (lazy) and the job take(10) runs.  take stops
\* once it has 10 pairs, so a pair on which equal raises fails the job for
\* sure only when fewer than 10 unequal pairs exist.
TakeDifferent ==
    /\ pc = "take"
    /\ log' = log \o <<<<"zipWithIndex", ExpectedRdd>>, <<"zipWithIndex", ResultRdd>>,
                       <<"join", 0>>, <<"filter", 0>>, <<"take", 0>>>>
    /\ \/ /\ RaisingRDD = {} \/ Cardinality(UnequalRDD) >= TakeLimit
          /\ differentRows' \in Take(UnequalRDD, TakeLimit)
          /\ pc' = "assert"
          /\ UNCHANGED <<raised, fault>>
       \/ /\ RaisingRDD # {}
          /\ raised' = "TypeError"
          /\ pc' = "unpersistExpected"
          /\ UNCHANGED <<differentRows, fault>>
       \/ /\ raised' = "EngineError"
          /\ fault' = TRUE
          /\ pc' = "unpersistExpected"
          /\ UNCHANGED differentRows
    /\ UNCHANGED <<expected, result, same, tol, cached, bound, outcome>>

\* self.assertEqual([], differentRows)
AssertEmpty ==
    /\ pc = "assert"
    /\ raised' = IF differentRows = {} THEN "none" ELSE "RowMismatch"
    /\ pc' = "unpersistExpected"
    /\ UNCHANGED <<expected, result, same, tol, cached, bound, differentRows,
                   outcome, log, fault>>

\* finally: expectedRDD.unpersist().  An unassigned local is a NameError; an
\* exception raised here replaces the one in flight and skips the rest of
\* the block.
UnpersistExpected ==
    /\ pc = "unpersistExpected"
    /\ IF "expectedRDD" \notin bound
       THEN /\ outcome' = "NameError"
            /\ pc' = "done"
            /\ UNCHANGED <<cached, log, fault>>
       ELSE /\ log' = Append(log, <<"unpersist", ExpectedRdd>>)
            /\ \E ok \in BOOLEAN :
                IF ok
                THEN /\ cached' = [cached EXCEPT ![ExpectedRdd] = FALSE]
                     /\ pc' = "unpersistResult"
                     /\ UNCHANGED <<outcome, fault>>
                ELSE /\ outcome' = "EngineError"
                     /\ fault' = TRUE
                     /\ pc' = "done"
                     /\ UNCHANGED cached
    /\ UNCHANGED <<expected, result, same, tol, bound, differentRows, raised>>

\* finally: resultRDD.unpersist(), then the exception in flight propagates
UnpersistResult ==
    /\ pc = "unpersistResult"
    /\ IF "resultRDD" \notin bound
       THEN /\ outcome' = "NameError"
            /\ UNCHANGED <<cached, log, fault>>
       ELSE /\ log' = Append(log, <<"unpersist", ResultRdd>>)
            /\ \E ok \in BOOLEAN :
                IF ok
                THEN /\ cached' = [cached EXCEPT ![ResultRdd] = FALSE]
                     /\ outcome' = IF raised = "none" THEN "pass" ELSE raised
                     /\ UNCHANGED fault
                ELSE /\ outcome' = "EngineError"
                     /\ fault' = TRUE
                     /\ UNCHANGED cached
    /\ pc' = "done"
    /\ UNCHANGED <<expected, result, same, tol, bound, differentRows, raised>>

Next ==
    \/ SchemaCheck
    \/ CacheExpected
    \/ CacheResult
    \/ TakeDifferent
    \/ AssertEmpty
    \/ UnpersistExpected
    \/ UnpersistResult

Spec == Init /\ [][Next]_vars

TypeOK ==
    /\ pc \in {"schema", "cacheExpected", "cacheResult", "take", "assert",
               "unpersistExpected", "unpersistResult", "done"}
    /\ outcome \in {"running", "pass", "SchemaMismatch", "RowMismatch", "TypeError",
                    "NameError", "EngineError"}
    /\ Cardinality(differentRows) <= Cardinality(JoinedRDD)

\* ------------------------------------------------------- claim vocabulary
Done == pc = "done"
SameSchema == expected.schema = result.schema
Min(a, b) == IF a < b THEN a ELSE b
MinLen == Min(Len(expected.rows), Len(result.rows))

\* the (row, field) positions at which the two DataFrames hold different data
DiffPositions ==
    {p \in (1..MinLen) \X (1..Len(expected.schema)) :
        expected.rows[p[1]][p[2]] # result.rows[p[1]][p[2]]}

\* unpersist was called on RDD r
UnpersistCalled(r) == \E i \in 1..Len(log) : log[i] = <<"unpersist", r>>

\* C1: assertDataFrameEqual(D, D, 0) succeeds for every DataFrame D, as
\* long as the engine itself does not fail.
C1_Reflexive ==
    (Done /\ same /\ tol = 0 /\ ~fault) => outcome = "pass"

\* C2: two DataFrames of one schema and one row count that differ in exactly
\* one field, a float one, by D > 0: the call passes iff tol >= D and fails
\* with a row mismatch iff tol < D (as long as the engine does not fail).
C2_ToleranceDecides ==
    (/\ Done /\ ~fault /\ SameSchema
     /\ Len(expected.rows) = Len(result.rows)
     /\ Cardinality(DiffPositions) = 1
     /\ \A p \in DiffPositions :
            /\ expected.rows[p[1]][p[2]].k = "float"
            /\ result.rows[p[1]][p[2]].k = "float")
    => \A p \in DiffPositions :
         LET D == Abs(expected.rows[p[1]][p[2]].v - result.rows[p[1]][p[2]].v)
         IN /\ (outcome = "pass") <=> (tol >= D)
            /\ (outcome = "RowMismatch") <=> (tol < D)

\* C3: DataFrames whose schemas differ fail with a schema mismatch, whatever
\* the tolerance and whatever their rows.
C3_SchemaMismatchFails ==
    (Done /\ ~SameSchema) => outcome = "SchemaMismatch"

C3_Witness ==
    /\ Done /\ ~SameSchema /\ outcome = "SchemaMismatch"
    /\ expected.rows = result.rows
    /\ expected.rows # <<>>
    /\ tol = MaxTol

\* C4: once both DataFrames were cached, unpersist has been called on both
\* by the time the call returns, whichever way it returns.
C4_BothReleased ==
    (Done /\ {"expectedRDD", "resultRDD"} \subseteq bound)
    => /\ UnpersistCalled(ExpectedRdd)
       /\ UnpersistCalled(ResultRdd)

\* C5: a passing call means equal DataFrames: same schema, same number of
\* rows, each row equal to its counterpart under the tolerance.
C5_PassMeansEqual ==
    (Done /\ outcome = "pass")
    => /\ SameSchema
       /\ Len(expected.rows) = Len(result.rows)
       /\ \A i \in 1..MinLen : Equal(expected.rows[i], result.rows[i], tol) = "True"

\* C6: a difference in a field whose expected value is not a float makes the
\* call fail under every tolerance: with a row mismatch or a TypeError when
\* the engine does not fail.
NonFloatDiff ==
    \E p \in DiffPositions : ~IsFloat(expected.rows[p[1]][p[2]])

C6_NonFloatDiffFails ==
    (Done /\ SameSchema /\ NonFloatDiff)
    => /\ outcome # "pass"
       /\ ~fault => outcome \in {"RowMismatch", "TypeError"}

C6_Witness ==
    /\ Done /\ SameSchema /\ NonFloatDiff /\ tol = MaxTol
    /\ \A p \in DiffPositions : expected.rows[p[1]][p[2]].k = "list"
    /\ outcome = "RowMismatch"

\* C7: the mismatch report never holds more than 10 pairs, it is empty
\* exactly when no joined pair is unequal, and (the engine not failing) the
\* call fails exactly when equal is not True on some joined pair.
C7_ReportCapped ==
    /\ Cardinality(differentRows) <= TakeLimit
    /\ pc = "assert" =>
        /\ differentRows \subseteq UnequalRDD
        /\ (differentRows = {}) <=> (UnequalRDD = {})
    /\ (Done /\ SameSchema /\ ~fault) =>
        ((outcome # "pass") <=> (\E j \in JoinedRDD : EqualOf(j) # "True"))

C7_Witness ==
    /\ Done /\ outcome = "RowMismatch"
    /\ Cardinality(UnequalRDD) > TakeLimit
    /\ Cardinality(differentRows) = TakeLimit

\* what the row predicate is said to compute
WithinTol(a, b, t) == a.k = "float" /\ b.k = "float" /\ Abs(a.v - b.v) <= t

StatedEqual(x, y, t) ==
    /\ Len(x) = Len(y)
    /\ \A i \in 1..Len(x) :
        \/ IsFloat(x[i]) /\ WithinTol(x[i], y[i], t)
        \/ ~IsFloat(x[i]) /\ PyEq(x[i], y[i])

\* C8: on every joined pair equal returns True exactly when the rows have
\* one length and every field is within tol (floats) or equal (the rest).
C8_EqualAsStated ==
    pc = "assert" =>
        \A j \in JoinedRDD :
            (EqualOf(j) = "True") <=> StatedEqual(j[2][1], j[2][2], tol)

C10_SchemaCheckFirst ==
    /\ ~SameSchema =>
        /\ log = <<>>
        /\ cached = [r \in {1, 2} |-> FALSE]
        /\ bound = {}
        /\ differentRows = {}
    /\ log # <<>> => (SameSchema /\ pc # "schema")

C10_Witness ==
    /\ Done /\ ~SameSchema /\ outcome = "SchemaMismatch"
    /\ log = <<>>
    /\ expected.rows # <<>> /\ result.rows # <<>>
====
